---- MODULE Spec2Model ----
(***************************************************************************)
(* Face + voice biometric login with file-backed enrolment.                *)
(*   src/utils.py         extraction, matching, the embeddings store       *)
(*   src/steamlit_app.py  the Streamlit pages (one handler per button)     *)
(*                                                                         *)
(* Three specifications share the state:                                   *)
(*   Spec       one browser session; every button handler is one step      *)
(*   SpecStore  the store functions of utils.py called directly            *)
(*   SpecConc   two browser sessions enrolling, one file operation a step  *)
(***************************************************************************)
EXTENDS Integers, Sequences, FiniteSets, TLC

VARIABLES
    disk,                 \* the "users" directory tree (BASE_USERS_DIR)
    speaker_model,        \* utils._speaker_model: "None" or "loaded"
    admin_authenticated,  \* steamlit_app.py:102, local of the last script run
    result,               \* what the last handler showed / the last call returned
    ever_verified,        \* history: some verification passed face and voice
    sess,                 \* SpecConc: each session's position in "Enroll New User"
    last_writer           \* SpecConc history: who wrote each artifact last

vars == <<disk, speaker_model, admin_authenticated, result, ever_verified,
          sess, last_writer>>

(***************************************************************************)
(* Bounds and input domains                                                *)
(***************************************************************************)
\* Largest vector norm of the sample embeddings (integer square roots are
\* searched in 0..MaxNorm).
MaxNorm == 20

\* Directory names that can appear under users/.
DirNames == {"alice", "bob"}

\* Text a caller can type into a username box.  "alice/" is a second spelling
\* of alice's directory; "" is the empty box.
Usernames == {"alice", "bob", "alice/"}

\* Face encodings (5 of the 128 dimensions are enough for the scores needed):
\* cos(E1,F55) = 11/20 = 0.55, cos(E1,F50) = 1/2, cos(F55,F50) = 35/40.
E1  == <<1, 0, 0, 0, 0>>
F55 == <<11, 15, 7, 2, 1>>
F50 == <<1, 1, 1, 1, 0>>

\* Speaker embeddings: cos(V1,V2) = 3/5 = 0.6, cos(V1,V3) = 0, cos(V2,V3) = 4/5.
V1 == <<1, 0>>
V2 == <<3, 4>>
V3 == <<0, 1>>

\* An uploaded image is the list of face encodings face_recognition finds in
\* it (none, one, or several); an uploaded clip either decodes to an embedding
\* or makes encode_file raise.
BadWav == [valid |-> FALSE, emb |-> <<>>]
Wav(e) == [valid |-> TRUE, emb |-> e]
Upload(img, audio) == [img |-> img, audio |-> audio]

\* The people whose samples are uploaded.  Against P1: P2 scores exactly the
\* two thresholds, P3 passes the face and fails the voice, P4 fails the face
\* and passes the voice.  P3 against P4 fails both.
P1 == Upload(<<E1>>, Wav(V1))
P2 == Upload(<<F55>>, Wav(V2))
P3 == Upload(<<E1>>, Wav(V3))
P4 == Upload(<<F50, E1>>, Wav(V1))
People == {P1, P2, P3, P4}
\* What a caller can upload: a person's samples, a picture without a face, or
\* a clip that cannot be decoded.
Uploads == People \cup {Upload(<<>>, Wav(V1)), Upload(<<E1>>, BadWav)}

\* Metadata dictionaries handed to the store.
EmptyDict == [k \in {} |-> ""]
Metas == {EmptyDict, "role" :> "admin", "created_by" :> "admin",
          "username" :> "mallory"}

Sessions == {"s1", "s2"}
\* The biometrics each concurrent session uploads when enrolling.
SessionUpload(s) == IF s = "s1" THEN P1 ELSE P2

(***************************************************************************)
(* Files                                                                   *)
(***************************************************************************)
\* A vector file is absent, or present with or without each of its two
\* parts: the .npy header (magic string, dtype, shape) and the array bytes
\* that follow it.  np.save writes the two parts one after the other.  A
\* metadata file is absent, or holds len bytes that are either the JSON text
\* of the pairs in text (valid) or no JSON document at all.
NoNpy == [present |-> FALSE, header |-> FALSE, body |-> FALSE,
          shape |-> 0, data |-> <<>>]
NoJson == [present |-> FALSE, valid |-> FALSE, len |-> 0, text |-> {}]
EmptyEntry == [dir |-> FALSE, face |-> NoNpy, voice |-> NoNpy, meta |-> NoJson]

\* open(file, "wb") inside np.save: the file exists and holds no bytes.
NpOpen == [present |-> TRUE, header |-> FALSE, body |-> FALSE,
           shape |-> 0, data |-> <<>>]

\* format.write_array inside np.save: fp.write(header) reaches the file at
\* offset 0 when array.tofile(fp) flushes; array.tofile then writes the array
\* bytes behind it.
NpHeader(file, arr) == [file EXCEPT !.header = TRUE, !.shape = Len(arr)]
NpBody(file, arr) == [file EXCEPT !.body = TRUE, !.data = arr]

\* The file holds a header and the array bytes behind it.
NpWhole(file) == file.header /\ file.body

\* np.save / np.load of a 1-D float array.
NpSave(arr) == NpBody(NpHeader(NpOpen, arr), arr)
NpLoad(file) == [i \in 1..file.shape |-> file.data[i]]

\* open(ud / "meta.json", "w"): the file exists and holds no bytes.
JsonOpen == [present |-> TRUE, valid |-> FALSE, len |-> 0, text |-> {}]

\* The number of characters json.dump writes for a dict of strings:
\* {"k": "v", "k2": "v2"} with its default separators; {} for no pairs.
RECURSIVE JsonPairsLen(_)
JsonPairsLen(pairs) ==
    IF pairs = {} THEN 0
    ELSE LET p == CHOOSE q \in pairs : TRUE
         IN Len(p[1]) + Len(p[2]) + 6 + JsonPairsLen(pairs \ {p})
JsonLen(pairs) ==
    IF pairs = {} THEN 2 ELSE 2 + JsonPairsLen(pairs) + 2 * (Cardinality(pairs) - 1)

\* json.dump / json.load of a dict with string keys and string values.
JsonDump(d) ==
    LET pairs == {<<k, d[k]>> : k \in DOMAIN d}
    IN [present |-> TRUE, valid |-> TRUE, len |-> JsonLen(pairs), text |-> pairs]
JsonLoad(file) ==
    [k \in {p[1] : p \in file.text} |-> (CHOOSE p \in file.text : p[1] = k)[2]]

\* The bytes of doc written from offset 0 into a file that holds old: doc
\* when it covers all of old, else doc followed by the rest of old, which no
\* JSON parser accepts ("Extra data").
JsonOverlay(old, doc) ==
    IF doc.len >= old.len THEN doc
    ELSE [present |-> TRUE, valid |-> FALSE, len |-> old.len, text |-> {}]

\* (Path(base_dir) / username).name: pathlib drops a trailing separator, so
\* "alice/" names the directory users/alice.
PathName(username) ==
    CASE username = "alice/" -> "alice"
      [] OTHER -> username

(***************************************************************************)
(* utils.py: extraction                                                    *)
(***************************************************************************)
\* get_face_encoding_from_image: the first face found, or ValueError.
get_face_encoding_from_image(img) ==
    IF Len(img) = 0
    THEN [ok |-> FALSE, enc |-> <<>>]
    ELSE [ok |-> TRUE, enc |-> img[1]]

\* get_voice_embedding_from_wav: encode_file's embedding, or its exception.
get_voice_embedding_from_wav(wav) ==
    IF wav.valid
    THEN [ok |-> TRUE, enc |-> wav.emb]
    ELSE [ok |-> FALSE, enc |-> <<>>]

(***************************************************************************)
(* utils.py: matching.  A score is the exact fraction <<num, den>>, den > 0 *)
(***************************************************************************)
RECURSIVE DotTo(_, _, _)
DotTo(a, b, n) == IF n = 0 THEN 0 ELSE a[n] * b[n] + DotTo(a, b, n - 1)
Dot(a, b) == DotTo(a, b, Len(a))
Norm(a) == LET sq == Dot(a, a) IN CHOOSE r \in 0..MaxNorm : r * r = sq

cosine_score(a, b) == <<Dot(a, b), Norm(a) * Norm(b)>>

\* score >= threshold on fractions with positive denominators.
ScoreGE(score, threshold) == score[1] * threshold[2] >= threshold[1] * score[2]
ScoreGT(score, threshold) == score[1] * threshold[2] > threshold[1] * score[2]

FaceThreshold == <<11, 20>>     \* threshold=0.55
VoiceThreshold == <<3, 5>>      \* threshold=0.6

is_face_match_strict(enc1, enc2) ==
    LET score == cosine_score(enc1, enc2)
    IN <<ScoreGT(score, FaceThreshold), score>>

is_face_match(enc1, enc2) ==
    LET score == cosine_score(enc1, enc2)
    IN <<ScoreGE(score, FaceThreshold), score>>

is_voice_match(enc1, enc2) ==
    LET score == cosine_score(enc1, enc2)
    IN <<ScoreGE(score, VoiceThreshold), score>>

(***************************************************************************)
(* utils.py: storage.  Every function takes the tree and returns the tree  *)
(* it leaves behind.                                                       *)
(***************************************************************************)
\* base.mkdir(parents=True, exist_ok=True)
mkdir_base(d) == [d EXCEPT !.base = TRUE]

\* ud.mkdir(parents=True, exist_ok=True)
mkdir_ud(d, username) ==
    [base |-> TRUE,
     users |-> [d.users EXCEPT ![PathName(username)].dir = TRUE]]

\* ensure_user_dir: the two mkdir calls, one after the other.
ensure_user_dir(d, username) == mkdir_ud(mkdir_base(d), username)

\* np.save(ud / "<artifact>_enc.npy", enc), its open: the file is created, or
\* truncated when it exists.
open_npy(d, username, artifact) ==
    [d EXCEPT !.users[PathName(username)][artifact] = NpOpen]

\* np.save(ud / "<artifact>_enc.npy", enc), the header: written at offset 0.
\* Every array saved under one artifact name has the same dtype and shape,
\* hence the same header and the same byte length.
header_npy(d, username, artifact, enc) ==
    [d EXCEPT !.users[PathName(username)][artifact] = NpHeader(@, enc)]

\* A variant in which array bytes that are already in the file are kept.
write_npy_keep_body(d, username, artifact, enc) ==
    IF d.users[PathName(username)][artifact].body
    THEN d
    ELSE [d EXCEPT !.users[PathName(username)][artifact] = NpBody(@, enc)]

\* np.save(ud / "<artifact>_enc.npy", enc), the array bytes and the close:
\* written behind the header, over whatever array bytes the file holds.
write_npy(d, username, artifact, enc) ==
    [d EXCEPT !.users[PathName(username)][artifact] = NpBody(@, enc)]

\* meta or {}
MetaOrEmpty(meta) == IF DOMAIN meta = {} THEN EmptyDict ELSE meta

\* dict.update({key: value})
DictUpdate(m, key, value) ==
    [k \in DOMAIN m \cup {key} |-> IF k = key THEN value ELSE m[k]]

\* open(ud / "meta.json", "w"): the file is created, or truncated when it
\* exists.
open_meta(d, username) ==
    [d EXCEPT !.users[PathName(username)].meta = JsonOpen]

\* A variant that forgets the caller's metadata.
write_meta_username_only(d, username, meta) ==
    [d EXCEPT !.users[PathName(username)].meta =
        JsonOverlay(@, JsonDump(DictUpdate(EmptyDict, "username", username)))]

\* meta_data = meta or {}; meta_data.update({"username": username});
\* json.dump(meta_data, f) and the close that ends the with block: the text
\* reaches the file from offset 0.
write_meta(d, username, meta) ==
    [d EXCEPT !.users[PathName(username)].meta =
        JsonOverlay(@, JsonDump(DictUpdate(MetaOrEmpty(meta), "username", username)))]

\* The number of file-system steps of save_user_embeddings.
SaveLast == 10

\* The first n file-system steps of save_user_embeddings, in program order:
\* the two directories, then open, header and array of the face vector and
\* of the voice vector, then open and text of the metadata.
SaveSteps(d, username, face_enc, voice_enc, meta, n) ==
    LET d1 == mkdir_base(d)
        d2 == mkdir_ud(d1, username)
        d3 == open_npy(d2, username, "face")
        d4 == header_npy(d3, username, "face", face_enc)
        d5 == write_npy(d4, username, "face", face_enc)
        d6 == open_npy(d5, username, "voice")
        d7 == header_npy(d6, username, "voice", voice_enc)
        d8 == write_npy(d7, username, "voice", voice_enc)
        d9 == open_meta(d8, username)
        d10 == write_meta(d9, username, meta)
    IN CASE n = 0 -> d [] n = 1 -> d1 [] n = 2 -> d2 [] n = 3 -> d3
         [] n = 4 -> d4 [] n = 5 -> d5 [] n = 6 -> d6 [] n = 7 -> d7
         [] n = 8 -> d8 [] n = 9 -> d9 [] OTHER -> d10

save_user_embeddings(d, username, face_enc, voice_enc, meta) ==
    SaveSteps(d, username, face_enc, voice_enc, meta, SaveLast)

\* load_user_embeddings: FileNotFoundError("User not found") when the
\* directory is missing; np.load's FileNotFoundError when a vector file is
\* missing, its EOFError when the file holds no bytes and its ValueError
\* when the header or the array bytes are not there; meta = {} when
\* meta.json is missing and json.load's JSONDecodeError when it holds no JSON
\* document.
load_user_embeddings(d, username) ==
    LET e == d.users[PathName(username)]
        fail(why) == [status |-> why, face |-> <<>>, voice |-> <<>>,
                      meta |-> EmptyDict]
        np_load(file) ==
            IF ~file.present THEN "NoSuchFile"
            ELSE IF ~file.header /\ ~file.body THEN "EOFError"
            ELSE IF ~NpWhole(file) THEN "ValueError"
            ELSE "ok"
    IN IF ~(d.base /\ e.dir) THEN fail("UserNotFound")
       ELSE IF np_load(e.face) # "ok" THEN fail(np_load(e.face))
       ELSE IF np_load(e.voice) # "ok" THEN fail(np_load(e.voice))
       ELSE IF e.meta.present /\ ~e.meta.valid THEN fail("JSONDecodeError")
       ELSE [status |-> "ok", face |-> NpLoad(e.face), voice |-> NpLoad(e.voice),
             meta |-> IF e.meta.present THEN JsonLoad(e.meta) ELSE EmptyDict]

\* list_users: the names of the sub-directories of base_dir.
list_users(d) == IF ~d.base THEN {} ELSE {n \in DirNames : d.users[n].dir}

(***************************************************************************)
(* steamlit_app.py: what a handler shows                                   *)
(***************************************************************************)
NoScore == <<0, 1>>

Res(op, outcome) ==
    [op |-> op, outcome |-> outcome,
     face_ok |-> FALSE, face_score |-> NoScore,
     voice_ok |-> FALSE, voice_score |-> NoScore,
     granted |-> FALSE, shown |-> {}]

\* show_match_results: both lines, then granted iff face_ok and voice_ok.
show_match_results(face_score, face_ok, voice_score, voice_ok) ==
    [op |-> "verify", outcome |-> "shown",
     face_ok |-> face_ok, face_score |-> face_score,
     voice_ok |-> voice_ok, voice_score |-> voice_score,
     granted |-> (face_ok /\ voice_ok), shown |-> {}]

\* The try block shared by "Verify" and "Admin Verify": face encoding, voice
\* embedding, load of the stored template, the two matches; the first
\* exception ends it.  voice_called tells whether get_speaker_model() ran.
authenticate(d, user, img, audio) ==
    LET f == get_face_encoding_from_image(img)
        v == get_voice_embedding_from_wav(audio)
        t == load_user_embeddings(d, user)
        fm == is_face_match(f.enc, t.face)
        vm == is_voice_match(v.enc, t.voice)
        stop(why, called) ==
            [outcome |-> why, voice_called |-> called,
             face_ok |-> FALSE, face_score |-> NoScore,
             voice_ok |-> FALSE, voice_score |-> NoScore]
    IN IF ~f.ok THEN stop("NoFaceFound", FALSE)
       ELSE IF ~v.ok THEN stop("VoiceError", TRUE)
       ELSE IF t.status # "ok" THEN stop(t.status, TRUE)
       ELSE [outcome |-> "matched", voice_called |-> TRUE,
             face_ok |-> fm[1], face_score |-> fm[2],
             voice_ok |-> vm[1], voice_score |-> vm[2]]

\* get_speaker_model(): loaded on first use, kept afterwards.
get_speaker_model(model, called) == IF called THEN "loaded" ELSE model

\* What "Verify" shows for these inputs on tree d.
VerifyResult(d, target_user, img_input, audio_file) ==
    LET a == authenticate(d, target_user, img_input, audio_file)
    IN IF a.outcome = "matched"
       THEN show_match_results(a.face_score, a.face_ok, a.voice_score, a.voice_ok)
       ELSE Res("verify", a.outcome)

Unused == UNCHANGED <<sess, last_writer>>

(***************************************************************************)
(* Initial state: no users directory, no model loaded, nothing shown.      *)
(***************************************************************************)
Init ==
    /\ disk = [base |-> FALSE, users |-> [n \in DirNames |-> EmptyEntry]]
    /\ speaker_model = "None"
    /\ admin_authenticated = FALSE
    /\ result = Res("none", "none")
    /\ ever_verified = FALSE
    /\ sess = [s \in Sessions |-> [pc |-> "idle", username |-> "", outcome |-> "none"]]
    /\ last_writer = [n \in DirNames |->
                        [face |-> "none", voice |-> "none", meta |-> "none"]]

(***************************************************************************)
(* Page "Authenticate": button "Verify"                                    *)
(***************************************************************************)
\* A box left empty (have_uploads: both files were uploaded): the handler
\* stops at its input checks.
VerifyIncomplete(target_user, have_uploads) ==
    /\ target_user = "" \/ ~have_uploads
    /\ result' = IF target_user = ""
                 THEN Res("verify", "enter_username")
                 ELSE Res("verify", "upload_both")
    /\ admin_authenticated' = FALSE
    /\ UNCHANGED <<disk, speaker_model, ever_verified>>
    /\ Unused

\* A variant whose lookup creates the user directory it looks for.
Verify_ensure_dir(target_user, img_input, audio_file) ==
    LET a == authenticate(disk, target_user, img_input, audio_file)
    IN /\ result' = VerifyResult(disk, target_user, img_input, audio_file)
       /\ speaker_model' = get_speaker_model(speaker_model, a.voice_called)
       /\ ever_verified' = (ever_verified \/ (a.face_ok /\ a.voice_ok))
       /\ admin_authenticated' = FALSE
       /\ disk' = IF a.voice_called /\ a.outcome # "VoiceError"
                  THEN ensure_user_dir(disk, target_user)
                  ELSE disk
       /\ Unused

Verify(target_user, img_input, audio_file) ==
    LET a == authenticate(disk, target_user, img_input, audio_file)
    IN /\ result' = VerifyResult(disk, target_user, img_input, audio_file)
       /\ speaker_model' = get_speaker_model(speaker_model, a.voice_called)
       /\ ever_verified' = (ever_verified \/ (a.face_ok /\ a.voice_ok))
       /\ admin_authenticated' = FALSE
       /\ UNCHANGED disk
       /\ Unused

(***************************************************************************)
(* Page "Admin Login / Enroll"                                             *)
(***************************************************************************)
\* Step 1, button "Admin Verify", with a box left empty.
AdminVerifyIncomplete(admin_user, have_uploads) ==
    /\ admin_user = "" \/ ~have_uploads
    /\ result' = Res("admin_verify", "provide_inputs")
    /\ admin_authenticated' = FALSE
    /\ UNCHANGED <<disk, speaker_model, ever_verified>>
    /\ Unused

\* Step 1, button "Admin Verify": sets the local admin_authenticated.
AdminVerify(admin_user, admin_img, admin_audio) ==
    LET a == authenticate(disk, admin_user, admin_img, admin_audio)
        passed == a.face_ok /\ a.voice_ok
    IN /\ result' =
            IF a.outcome # "matched" THEN Res("admin_verify", a.outcome)
            ELSE [Res("admin_verify",
                      IF passed THEN "authenticated" ELSE "failed")
                  EXCEPT !.granted = passed]
       /\ admin_authenticated' = passed
       /\ speaker_model' = get_speaker_model(speaker_model, a.voice_called)
       /\ ever_verified' = (ever_verified \/ passed)
       /\ UNCHANGED disk
       /\ Unused

\* Step 0, button "Create Admin", with a box left empty.
CreateAdminIncomplete(init_user, have_uploads) ==
    /\ init_user = "" \/ ~have_uploads
    /\ result' = IF list_users(disk) = {}
                 THEN Res("create_admin", "provide_inputs")
                 ELSE Res("create_admin", "not_required")
    /\ admin_authenticated' = FALSE
    /\ UNCHANGED <<disk, speaker_model, ever_verified>>
    /\ Unused

\* Step 0, button "Create Admin": offered only while list_users is empty.
CreateAdmin(init_user, init_face, init_voice) ==
    LET fenc == get_face_encoding_from_image(init_face)
        venc == get_voice_embedding_from_wav(init_voice)
        offered == list_users(disk) = {}
    IN /\ result' =
            IF ~offered THEN Res("create_admin", "not_required")
            ELSE IF ~fenc.ok THEN Res("create_admin", "NoFaceFound")
            ELSE IF ~venc.ok THEN Res("create_admin", "VoiceError")
            ELSE Res("create_admin", "initialized")
       /\ disk' = IF offered /\ fenc.ok /\ venc.ok
                  THEN save_user_embeddings(disk, init_user, fenc.enc, venc.enc,
                                            "role" :> "admin")
                  ELSE disk
       /\ speaker_model' = get_speaker_model(speaker_model, offered /\ fenc.ok)
       /\ admin_authenticated' = FALSE
       /\ UNCHANGED ever_verified
       /\ Unused

\* The enrolment panel is drawn only when the checkbox admin_flag is ticked;
\* button "Enroll New User" with a box left empty, or the panel hidden.
EnrollNewUserIncomplete(admin_flag, new_username, have_uploads) ==
    /\ ~admin_flag \/ new_username = "" \/ ~have_uploads
    /\ result' = IF ~admin_flag THEN Res("enroll", "hidden")
                 ELSE Res("enroll", "provide_inputs")
    /\ admin_authenticated' = FALSE
    /\ UNCHANGED <<disk, speaker_model, ever_verified>>
    /\ Unused

\* Button "Enroll New User" with the checkbox ticked and every box filled.
EnrollNewUser(new_username, new_face, new_voice) ==
    LET fenc == get_face_encoding_from_image(new_face)
        venc == get_voice_embedding_from_wav(new_voice)
        taken == new_username \in list_users(disk)
    IN /\ result' =
            IF taken THEN Res("enroll", "exists")
            ELSE IF ~fenc.ok THEN Res("enroll", "NoFaceFound")
            ELSE IF ~venc.ok THEN Res("enroll", "VoiceError")
            ELSE Res("enroll", "enrolled")
       /\ disk' = IF ~taken /\ fenc.ok /\ venc.ok
                  THEN save_user_embeddings(disk, new_username, fenc.enc, venc.enc,
                                            "created_by" :> "admin")
                  ELSE disk
       /\ speaker_model' = get_speaker_model(speaker_model, ~taken /\ fenc.ok)
       /\ admin_authenticated' = FALSE
       /\ UNCHANGED ever_verified
       /\ Unused

(***************************************************************************)
(* Page "List Users"                                                       *)
(***************************************************************************)
\* The list, and with "Show user details (meta)" each user's metadata or
\* the error reading it.
ListUsers(show_details) ==
    /\ result' =
         [Res("list", IF list_users(disk) = {} THEN "no_users" ELSE "listed")
          EXCEPT !.shown =
            IF show_details
            THEN {<<u, load_user_embeddings(disk, u).status,
                    load_user_embeddings(disk, u).meta>> : u \in list_users(disk)}
            ELSE {<<u>> : u \in list_users(disk)}]
    /\ admin_authenticated' = FALSE
    /\ UNCHANGED <<disk, speaker_model, ever_verified>>
    /\ Unused

Next ==
    \/ \E u \in Usernames \cup {""}, h \in BOOLEAN : VerifyIncomplete(u, h)
    \/ \E u \in Usernames, up \in Uploads : Verify(u, up.img, up.audio)
    \/ \E u \in Usernames \cup {""}, h \in BOOLEAN : AdminVerifyIncomplete(u, h)
    \/ \E u \in Usernames, up \in Uploads : AdminVerify(u, up.img, up.audio)
    \/ \E u \in Usernames \cup {""}, h \in BOOLEAN : CreateAdminIncomplete(u, h)
    \/ \E u \in Usernames, up \in Uploads : CreateAdmin(u, up.img, up.audio)
    \/ \E f, h \in BOOLEAN, u \in Usernames \cup {""} :
            EnrollNewUserIncomplete(f, u, h)
    \/ \E u \in Usernames, up \in Uploads : EnrollNewUser(u, up.img, up.audio)
    \/ \E b \in BOOLEAN : ListUsers(b)

Spec == Init /\ [][Next]_vars

(***************************************************************************)
(* Properties of the pages (specification Spec)                            *)
(***************************************************************************)
\* A directory holds a whole template: both vectors and the metadata, each
\* readable.
HasTemplate(d, n) ==
    /\ d.base /\ d.users[n].dir
    /\ NpWhole(d.users[n].face) /\ NpWhole(d.users[n].voice)
    /\ d.users[n].meta.valid

\* C1: with at least one user enrolled, an enrolment writes to the store only
\* if some earlier verification passed both face and voice.
C1_EnrolOnlyAfterPassingVerification ==
    [][(/\ result'.op = "enroll"
        /\ list_users(disk) # {}
        /\ \E u \in Usernames, up \in Uploads : EnrollNewUser(u, up.img, up.audio)
        /\ disk' # disk)
       => ever_verified]_vars

\* C3: "Create Admin" succeeds only on an empty store; after it succeeds for
\* username u the user list is exactly {u} and u's metadata has role = admin;
\* in every other case it leaves the store as it was.
C3_BootstrapOnlyWhenEmpty ==
    [][\A u \in Usernames, up \in Uploads :
        (result'.op = "create_admin" /\ CreateAdmin(u, up.img, up.audio)) =>
            IF result'.outcome = "initialized"
            THEN /\ list_users(disk) = {}
                 /\ list_users(disk') = {u}
                 /\ load_user_embeddings(disk', u).status = "ok"
                 /\ "role" \in DOMAIN load_user_embeddings(disk', u).meta
                 /\ load_user_embeddings(disk', u).meta["role"] = "admin"
            ELSE disk' = disk]_vars

\* C4: whenever "Verify" shows match results, access is granted iff both
\* flags are set, the face flag is exactly score >= 0.55 and the voice flag
\* is exactly score >= 0.60 (scores are fractions num/den).
C4_GrantedIffBothAtOrAboveThreshold ==
    (result.op = "verify" /\ result.outcome = "shown") =>
        /\ result.granted <=> (result.face_ok /\ result.voice_ok)
        /\ result.face_ok <=> (100 * result.face_score[1] >= 55 * result.face_score[2])
        /\ result.voice_ok <=> (100 * result.voice_score[1] >= 60 * result.voice_score[2])

\* A verification whose two scores are exactly 0.55 and 0.60, and granted.
C4_WitnessBothExactlyAtThreshold ==
    /\ result.op = "verify" /\ result.outcome = "shown"
    /\ result.face_score = <<11, 20>> /\ result.voice_score = <<3, 5>>
    /\ result.granted

\* C7: a directory that holds a whole template keeps exactly that template
\* through every handler.
C7_TemplatesAreCreateOnce ==
    [][\A n \in DirNames :
        HasTemplate(disk, n) => disk'.users[n] = disk.users[n]]_vars

\* C8: "Verify" for a username without a stored template reports the unknown
\* user, whatever the picture and the clip are.
C8_UnknownUserReportedFirst ==
    [][\A u \in Usernames, up \in Uploads :
        (/\ result'.op = "verify"
         /\ Verify(u, up.img, up.audio)
         /\ load_user_embeddings(disk, u).status = "UserNotFound")
        => result'.outcome = "UserNotFound"]_vars

\* C9: "Verify" and "Admin Verify" leave the store as it was, and the same
\* "Verify" on the store they leave shows the same result again.
C9_VerifyLeavesStoreUnchanged ==
    [][/\ result'.op \in {"verify", "admin_verify"} => disk' = disk
       /\ \A u \in Usernames, up \in Uploads :
            (result'.op = "verify" /\ Verify(u, up.img, up.audio)) =>
                result' = VerifyResult(disk', u, up.img, up.audio)]_vars

\* A verification of an unknown username was answered while another user is
\* enrolled.
C9_WitnessVerifiedUnknownUser ==
    /\ result.op = "verify" /\ result.outcome = "UserNotFound"
    /\ \E n \in DirNames : HasTemplate(disk, n)

(***************************************************************************)
(* Specification SpecStore: utils.py's store functions called directly     *)
(***************************************************************************)
\* The templates handed to the store.
StorePeople == {P1, P2}
FaceOf(p) == get_face_encoding_from_image(p.img).enc
VoiceOf(p) == get_voice_embedding_from_wav(p.audio).enc

\* save_user_embeddings(base_dir, username, face_enc, voice_enc, meta)
\* running to its end; it returns None and raises nothing of its own.  The
\* arguments of the call are kept in result.shown.
StoreCreate(username, face_enc, voice_enc, meta) ==
    /\ disk' = save_user_embeddings(disk, username, face_enc, voice_enc, meta)
    /\ result' = [Res("create", "ok") EXCEPT
                    !.shown = {<<username, face_enc, voice_enc, meta>>}]
    /\ UNCHANGED <<speaker_model, admin_authenticated, ever_verified>>
    /\ Unused

\* save_user_embeddings stopped by an I/O error (or the process being killed)
\* after its first n file-system steps, before the metadata text is written.
StoreCreateInterrupted(username, face_enc, voice_enc, n) ==
    /\ n \in 1..(SaveLast - 1)
    /\ disk' = SaveSteps(disk, username, face_enc, voice_enc, EmptyDict, n)
    /\ result' = Res("create", "interrupted")
    /\ UNCHANGED <<speaker_model, admin_authenticated, ever_verified>>
    /\ Unused

\* load_user_embeddings(base_dir, username): the returned triple is kept in
\* result.shown.
StoreRead(username) ==
    LET r == load_user_embeddings(disk, username)
    IN /\ result' = [Res("read", r.status) EXCEPT
                        !.shown = {<<username, r.face, r.voice, r.meta>>}]
       /\ UNCHANGED <<disk, speaker_model, admin_authenticated, ever_verified>>
       /\ Unused

\* list_users(base_dir)
StoreList ==
    /\ result' = [Res("store_list", "ok") EXCEPT
                    !.shown = {<<u>> : u \in list_users(disk)}]
    /\ UNCHANGED <<disk, speaker_model, admin_authenticated, ever_verified>>
    /\ Unused

NextStore ==
    \/ \E u \in Usernames, p \in StorePeople, m \in Metas :
            StoreCreate(u, FaceOf(p), VoiceOf(p), m)
    \/ \E u \in Usernames, p \in StorePeople, n \in 1..(SaveLast - 1) :
            StoreCreateInterrupted(u, FaceOf(p), VoiceOf(p), n)
    \/ \E u \in Usernames : StoreRead(u)
    \/ StoreList

SpecStore == Init /\ [][NextStore]_vars

\* The store holds a whole template that was created under exactly this
\* spelling of the username.
CreatedAs(d, username) ==
    /\ HasTemplate(d, PathName(username))
    /\ load_user_embeddings(d, username).meta["username"] = username

\* C2: a create for a username that already has a template fails with
\* AlreadyExists and leaves the stored vectors and metadata unchanged.
C2_CreateExistingFails ==
    [][\A u \in Usernames, p \in StorePeople, m \in Metas :
        (/\ result'.op = "create"
         /\ CreatedAs(disk, u)
         /\ StoreCreate(u, FaceOf(p), VoiceOf(p), m))
        => (result'.outcome = "AlreadyExists" /\ disk' = disk)]_vars

\* What read(u) returns right after create(u, f, v, m): the vectors f and v,
\* username = u, and every key of m among keys with its value.
ReadsBack(d, u, f, v, m, keys) ==
    LET r == load_user_embeddings(d, u)
    IN /\ r.status = "ok"
       /\ r.face = f /\ r.voice = v
       /\ "username" \in DOMAIN r.meta /\ r.meta["username"] = u
       /\ \A k \in keys : k \in DOMAIN r.meta /\ r.meta[k] = m[k]

\* C5 as stated: after create(u, f, v, m), read(u) returns f, v and metadata
\* holding every key of m with its value, plus username = u.
C5_RoundTripEveryKey ==
    (result.op = "create" /\ result.outcome = "ok") =>
        \A c \in result.shown :
            ReadsBack(disk, c[1], c[2], c[3], c[4], DOMAIN c[4])

\* C5 amended: after create(u, f, v, m), read(u) returns f, v and metadata
\* holding username = u and every key of m other than "username" with its
\* value.
C5_RoundTrip ==
    (result.op = "create" /\ result.outcome = "ok") =>
        \A c \in result.shown :
            ReadsBack(disk, c[1], c[2], c[3], c[4], DOMAIN c[4] \ {"username"})

\* A read returned a template created with role = admin: its vectors, the
\* role and the username it was read under.
C5_WitnessReadAfterCreate ==
    /\ result.op = "read" /\ result.outcome = "ok"
    /\ \E t \in result.shown :
          /\ t[2] = E1 /\ t[3] = V1
          /\ DOMAIN t[4] = {"role", "username"}
          /\ t[4]["role"] = "admin" /\ t[4]["username"] = t[1]

\* C6: a read that returns a template returns one whose directory holds all
\* three artifacts; after an interrupted create the read fails instead.
C6_ReadNeverReturnsPartialTemplate ==
    (result.op = "read" /\ result.outcome = "ok") =>
        \A t \in result.shown : HasTemplate(disk, PathName(t[1]))

(***************************************************************************)
(* Specification SpecConc: two browser sessions press "Enroll New User";   *)
(* Streamlit runs each session's script in its own thread, so the file     *)
(* operations of the two handlers interleave.                              *)
(***************************************************************************)
Goto(s, pc, outcome) == [sess EXCEPT ![s].pc = pc, ![s].outcome = outcome]

Wrote(s, artifact) ==
    [last_writer EXCEPT ![PathName(sess[s].username)][artifact] = s]

\* The metadata "Enroll New User" passes to save_user_embeddings.
EnrollMeta == "created_by" :> "admin"

\* The button is pressed; the handler reads list_users and stops if the name
\* is listed (steamlit_app.py:156).
EnrollCheck(s, new_username) ==
    /\ sess[s].pc = "idle"
    /\ sess' = [sess EXCEPT ![s] =
                  IF new_username \in list_users(disk)
                  THEN [pc |-> "idle", username |-> new_username, outcome |-> "exists"]
                  ELSE [pc |-> "extract", username |-> new_username, outcome |-> "none"]]
    /\ UNCHANGED <<disk, speaker_model, admin_authenticated, result,
                   ever_verified, last_writer>>

\* The two embeddings are computed from the session's uploads (160-161).
EnrollExtract(s) ==
    /\ sess[s].pc = "extract"
    /\ sess' = Goto(s, "mkdir_base", "none")
    /\ speaker_model' = get_speaker_model(speaker_model, TRUE)
    /\ UNCHANGED <<disk, admin_authenticated, result, ever_verified, last_writer>>

\* save_user_embeddings, one file-system step a step (utils.py:107-113).
EnrollEnsureBase(s) ==
    /\ sess[s].pc = "mkdir_base"
    /\ disk' = mkdir_base(disk)
    /\ sess' = Goto(s, "mkdir", "none")
    /\ UNCHANGED <<speaker_model, admin_authenticated, result, ever_verified,
                   last_writer>>

EnrollEnsureDir(s) ==
    /\ sess[s].pc = "mkdir"
    /\ disk' = mkdir_ud(disk, sess[s].username)
    /\ sess' = Goto(s, "open_face", "none")
    /\ UNCHANGED <<speaker_model, admin_authenticated, result, ever_verified,
                   last_writer>>

EnrollOpenFace(s) ==
    /\ sess[s].pc = "open_face"
    /\ disk' = open_npy(disk, sess[s].username, "face")
    /\ sess' = Goto(s, "header_face", "none")
    /\ UNCHANGED <<speaker_model, admin_authenticated, result, ever_verified,
                   last_writer>>

EnrollHeaderFace(s) ==
    /\ sess[s].pc = "header_face"
    /\ disk' = header_npy(disk, sess[s].username, "face", FaceOf(SessionUpload(s)))
    /\ sess' = Goto(s, "face", "none")
    /\ UNCHANGED <<speaker_model, admin_authenticated, result, ever_verified,
                   last_writer>>

EnrollSaveFace(s) ==
    /\ sess[s].pc = "face"
    /\ disk' = write_npy(disk, sess[s].username, "face", FaceOf(SessionUpload(s)))
    /\ last_writer' = Wrote(s, "face")
    /\ sess' = Goto(s, "open_voice", "none")
    /\ UNCHANGED <<speaker_model, admin_authenticated, result, ever_verified>>

EnrollOpenVoice(s) ==
    /\ sess[s].pc = "open_voice"
    /\ disk' = open_npy(disk, sess[s].username, "voice")
    /\ sess' = Goto(s, "header_voice", "none")
    /\ UNCHANGED <<speaker_model, admin_authenticated, result, ever_verified,
                   last_writer>>

EnrollHeaderVoice(s) ==
    /\ sess[s].pc = "header_voice"
    /\ disk' = header_npy(disk, sess[s].username, "voice", VoiceOf(SessionUpload(s)))
    /\ sess' = Goto(s, "voice", "none")
    /\ UNCHANGED <<speaker_model, admin_authenticated, result, ever_verified,
                   last_writer>>

EnrollSaveVoice(s) ==
    /\ sess[s].pc = "voice"
    /\ disk' = write_npy(disk, sess[s].username, "voice", VoiceOf(SessionUpload(s)))
    /\ last_writer' = Wrote(s, "voice")
    /\ sess' = Goto(s, "open_meta", "none")
    /\ UNCHANGED <<speaker_model, admin_authenticated, result, ever_verified>>

\* open(ud / "meta.json", "w") (utils.py:112).
EnrollOpenMeta(s) ==
    /\ sess[s].pc = "open_meta"
    /\ disk' = open_meta(disk, sess[s].username)
    /\ sess' = Goto(s, "meta", "none")
    /\ UNCHANGED <<speaker_model, admin_authenticated, result, ever_verified,
                   last_writer>>

\* json.dump and the close of the with block (utils.py:113).
EnrollSaveMeta(s) ==
    /\ sess[s].pc = "meta"
    /\ disk' = write_meta(disk, sess[s].username, EnrollMeta)
    /\ last_writer' = Wrote(s, "meta")
    /\ sess' = Goto(s, "success", "none")
    /\ UNCHANGED <<speaker_model, admin_authenticated, result, ever_verified>>

\* st.success (steamlit_app.py:163).
EnrollSuccess(s) ==
    /\ sess[s].pc = "success"
    /\ sess' = Goto(s, "idle", "enrolled")
    /\ UNCHANGED <<disk, speaker_model, admin_authenticated, result,
                   ever_verified, last_writer>>

NextConc ==
    \E s \in Sessions :
        \/ \E u \in Usernames : EnrollCheck(s, u)
        \/ EnrollExtract(s)
        \/ EnrollEnsureBase(s)
        \/ EnrollEnsureDir(s)
        \/ EnrollOpenFace(s)
        \/ EnrollHeaderFace(s)
        \/ EnrollSaveFace(s)
        \/ EnrollOpenVoice(s)
        \/ EnrollHeaderVoice(s)
        \/ EnrollSaveVoice(s)
        \/ EnrollOpenMeta(s)
        \/ EnrollSaveMeta(s)
        \/ EnrollSuccess(s)

SpecConc == Init /\ [][NextConc]_vars

\* Both sessions have finished an enrolment of the same username with success.
BothEnrolled(s, t) ==
    /\ s # t
    /\ sess[s].pc = "idle" /\ sess[s].outcome = "enrolled"
    /\ sess[t].pc = "idle" /\ sess[t].outcome = "enrolled"
    /\ sess[s].username = sess[t].username

\* C10: when two sessions have both reported success for the same username,
\* the stored template is whole and each of its artifacts is the one its last
\* writer wrote: neither enrolment was refused, the later writes won.
C10_BothEnrolSameNameLastWriteWins ==
    \A s, t \in Sessions :
        BothEnrolled(s, t) =>
            LET n == PathName(sess[s].username)
                e == disk.users[n]
                w == last_writer[n]
            IN /\ HasTemplate(disk, n)
               /\ w.face \in {s, t} /\ w.voice \in {s, t} /\ w.meta \in {s, t}
               /\ e.face = NpSave(FaceOf(SessionUpload(w.face)))
               /\ e.voice = NpSave(VoiceOf(SessionUpload(w.voice)))
               /\ e.meta = JsonDump(DictUpdate(EnrollMeta, "username",
                                               sess[w.meta].username))

\* Both succeeded for the same username and the stored template mixes the
\* face of one writer with the voice of the other.
C10_WitnessMixedTemplate ==
    \E s, t \in Sessions :
        /\ BothEnrolled(s, t)
        /\ last_writer[PathName(sess[s].username)].face = s
        /\ last_writer[PathName(sess[s].username)].voice = t
====
